---- MODULE Spec2Model ----
(***************************************************************************)
(* A model of cheap-research: the confined file tools, the LaTeX document  *)
(* assembler and compiler invoker (tools.py), the configuration store      *)
(* (config.py) and the interactive loop (__main__.py).                     *)
(*                                                                         *)
(* Strings are sequences of one-character strings, so that Python's        *)
(* str.startswith, newline translation and sorted() are computed and not   *)
(* assumed.  A path is a sequence of component names; the filesystem is a  *)
(* function from the absolute normalized paths that exist to their nodes.  *)
(* The filesystem holds directories and regular files only (no symbolic    *)
(* links), and the host is POSIX (separator "/", os.linesep "\n").         *)
(***************************************************************************)
EXTENDS Integers, Sequences, FiniteSets, TLC

VARIABLES
    fs,        \* the filesystem: absolute path -> node, for the paths that exist
    clock,     \* number of tool calls made so far (also the time of a write)
    docCalls,  \* number of create_latex_document / compile_latex_document calls so far
    last,      \* the tool call that just returned (or raised)
    prev,      \* the tool call before it
    cfgFile,   \* the persisted configuration file (config.toml)
    tmplFiles, \* the template files in the configuration directory
    mgr,       \* the ConfigManager constructed last: its config, and what construction did
    pc,        \* main(): "prompt" while the interactive loop runs, "done" after it
    iters,     \* number of iterations of the interactive loop so far
    runs,      \* the requests passed to manager_agent.run, in order
    lastIter   \* what the last iteration of the loop read and did

toolVars == <<fs, clock, docCalls, last, prev>>
cfgVars == <<cfgFile, tmplFiles, mgr>>
loopVars == <<pc, iters, runs, lastIter>>
vars == <<fs, clock, docCalls, last, prev, cfgFile, tmplFiles, mgr, pc, iters, runs, lastIter>>

\* Number of tool calls in one run of the model.
MaxCalls == 2
\* Number of those that may be create_latex_document or compile_latex_document.
MaxDocCalls == 1

----------------------------------------------------------------------------
(* Characters and strings.                                                 *)

CR == "CR"
LF == "LF"
\* A lone surrogate code point: a Python str may hold it, UTF-8 cannot encode it.
SURR == "SURR"

\* Code points of the characters used in names (Python compares str by code point).
CharCode ==
    [a |-> 97, b |-> 98, c |-> 99, d |-> 100, e |-> 101, f |-> 102, g |-> 103,
     i |-> 105, l |-> 108, m |-> 109, o |-> 111, p |-> 112, r |-> 114,
     s |-> 115, t |-> 116, w |-> 119, x |-> 120]
CodeOf(c) == IF c = "." THEN 46 ELSE IF c = "/" THEN 47 ELSE CharCode[c]

\* The component names used by the model, as strings.
nA == <<"a">>
nB == <<"b">>
nD == <<"d">>
nE == <<"e">>
nF == <<"f">>
nG == <<"g">>
nO == <<"o">>
nS == <<"s">>
nW == <<"w">>
nWX == <<"w", "x">>
\* A file name with a backslash in it, which is a name like any other here.
nDO == <<"d", "\\", "o">>
DOT == <<".">>
DOTDOT == <<".", ".">>

\* str.startswith
StartsWith(str, prefix) ==
    /\ Len(prefix) <= Len(str)
    /\ SubSeq(str, 1, Len(prefix)) = prefix

\* str.endswith
EndsWith(str, suffix) ==
    /\ Len(suffix) <= Len(str)
    /\ SubSeq(str, Len(str) - Len(suffix) + 1, Len(str)) = suffix

\* Python's str ordering: lexicographic by code point.
RECURSIVE StrLess(_, _)
StrLess(x, y) ==
    IF x = <<>> THEN y # <<>>
    ELSE IF y = <<>> THEN FALSE
    ELSE IF CodeOf(Head(x)) # CodeOf(Head(y))
         THEN CodeOf(Head(x)) < CodeOf(Head(y))
         ELSE StrLess(Tail(x), Tail(y))

\* The names of a set in descending str order.
RECURSIVE sorted_descending(_)
sorted_descending(names) ==
    IF names = {} THEN <<>>
    ELSE LET m == CHOOSE x \in names : \A y \in names \ {x} : StrLess(y, x)
         IN  <<m>> \o sorted_descending(names \ {m})

\* sorted(names): the names of a set in ascending str order.
RECURSIVE sorted(_)
sorted(names) ==
    IF names = {} THEN <<>>
    ELSE LET m == CHOOSE x \in names : \A y \in names \ {x} : StrLess(x, y)
         IN  <<m>> \o sorted(names \ {m})

----------------------------------------------------------------------------
(* os.path on POSIX.                                                       *)

\* os.getcwd(): the working directory, /w.
cwd == <<nW>>

\* A path argument as the caller writes it: absolute or relative, and its
\* components, which may be "." and "..".
Rel(comps) == [abs |-> FALSE, comps |-> comps]
Abs(comps) == [abs |-> TRUE, comps |-> comps]

\* os.path.normpath on the components of an absolute path: "." is dropped,
\* ".." removes the component before it (and is dropped at the root).
RECURSIVE Normalize(_, _)
Normalize(done, comps) ==
    IF comps = <<>> THEN done
    ELSE IF Head(comps) = DOT THEN Normalize(done, Tail(comps))
    ELSE IF Head(comps) = DOTDOT
         THEN Normalize(IF done = <<>> THEN <<>>
                        ELSE SubSeq(done, 1, Len(done) - 1), Tail(comps))
    ELSE Normalize(Append(done, Head(comps)), Tail(comps))

\* os.path.join(cwd, p): p alone when p is absolute.
Join(base, p) == IF p.abs THEN p.comps ELSE base \o p.comps

\* os.path.abspath(os.path.normpath(p)): the components of the absolute path.
abspath(p) == Normalize(<<>>, Join(cwd, p))

\* The text of an absolute path: "/" for the root, else "/a/b".
RECURSIVE PathStr(_)
PathStr(p) ==
    IF p = <<>> THEN <<>>
    ELSE <<"/">> \o Head(p) \o PathStr(Tail(p))

PathText(p) == IF p = <<>> THEN <<"/">> ELSE PathStr(p)

\* os.path.dirname of an absolute normalized path.
dirname(p) == IF p = <<>> THEN <<>> ELSE SubSeq(p, 1, Len(p) - 1)

IsPrefix(p, q) == Len(p) <= Len(q) /\ SubSeq(q, 1, Len(p)) = p

\* Length of the longest common prefix of two paths.
RECURSIVE CommonLen(_, _)
CommonLen(p, q) ==
    IF p = <<>> \/ q = <<>> \/ Head(p) # Head(q) THEN 0
    ELSE 1 + CommonLen(Tail(p), Tail(q))

\* os.path.relpath(p, start) for absolute normalized paths.
relpath(p, start) ==
    LET n == CommonLen(p, start)
        up == [i \in 1..(Len(start) - n) |-> DOTDOT]
        r == up \o SubSeq(p, n + 1, Len(p))
    IN  IF r = <<>> THEN <<DOT>> ELSE r

\* The guard of every file tool: file_path.startswith(cwd), on the path texts.
GuardPasses(p) == StartsWith(PathText(p), PathText(cwd))

\* What the guard is for: p is the working directory or lies below it.
InsideCwd(p) == IsPrefix(cwd, p)

----------------------------------------------------------------------------
(* The filesystem.                                                         *)

DirNode == [kind |-> "dir"]
FileNode(data, mtime) == [kind |-> "file", data |-> data, mtime |-> mtime]

exists(F, p) == p \in DOMAIN F
isfile(F, p) == p \in DOMAIN F /\ F[p].kind = "file"
isdir(F, p) == p \in DOMAIN F /\ F[p].kind = "dir"

\* The proper and improper prefixes of a path, the root excluded.
Prefixes(p) == {SubSeq(p, 1, n) : n \in 1..Len(p)}

\* os.makedirs(d, exist_ok=True): raises when a component of d is a regular
\* file; otherwise every missing component becomes a directory.
MakedirsRaises(F, d) == \E q \in Prefixes(d) : isfile(F, q)
Makedirs(F, d) ==
    LET new == {q \in Prefixes(d) : q \notin DOMAIN F}
    IN  [q \in DOMAIN F \cup new |-> IF q \in DOMAIN F THEN F[q] ELSE DirNode]

\* os.listdir(d): the names in directory d.
listdir(F, d) == {q[Len(q)] : q \in {r \in DOMAIN F : r # <<>> /\ dirname(r) = d}}

PutFile(F, p, node) ==
    [q \in DOMAIN F \cup {p} |-> IF q = p THEN node ELSE F[q]]

----------------------------------------------------------------------------
(* Text files: open(..., 'w'/'r', encoding=...) with the default newline    *)
(* handling (newline=None).                                                *)

\* os.linesep
linesep == <<LF>>

\* Writing in text mode: every "\n" becomes os.linesep.
RECURSIVE WriteTranslate(_)
WriteTranslate(text) ==
    IF text = <<>> THEN <<>>
    ELSE (IF Head(text) = LF THEN linesep ELSE <<Head(text)>>)
         \o WriteTranslate(Tail(text))

\* Reading in text mode (universal newlines): "\r\n" and "\r" become "\n".
RECURSIVE ReadTranslate(_)
ReadTranslate(data) ==
    IF data = <<>> THEN <<>>
    ELSE IF Head(data) = CR
         THEN IF Len(data) >= 2 /\ data[2] = LF
              THEN <<LF>> \o ReadTranslate(Tail(Tail(data)))
              ELSE <<LF>> \o ReadTranslate(Tail(data))
    ELSE <<Head(data)>> \o ReadTranslate(Tail(data))

\* str.encode('utf-8') raises UnicodeEncodeError on a lone surrogate.
EncodeRaises(text) == \E i \in 1..Len(text) : text[i] = SURR

\* The size str of read_file and list_files: the buckets B / KB / MB.
SizeStr(size) ==
    IF size < 1024 THEN [n |-> size, unit |-> "B"]
    ELSE IF size < 1024 * 1024 THEN [n |-> size \div 1024, unit |-> "KB"]
    ELSE [n |-> size \div (1024 * 1024), unit |-> "MB"]

----------------------------------------------------------------------------
(* Tool calls.  An operator per tool computes the outcome of one call on    *)
(* filesystem F: the filesystem afterwards, whether an exception left the   *)
(* tool, the returned value, and the filesystem I/O the call performed.     *)

Outcome(F, raised, res, io) == [fs |-> F, raised |-> raised, res |-> res, io |-> io]

Msg(m) == [msg |-> m]

\* The result of a call that an exception left: there is none.
NoResult == Msg("exception")

\* create_file that opens an existing file for appending.
create_file_appending(F, content, filename, now) ==
    LET file_path == abspath(filename)
        directory == dirname(file_path)
        mk == ~exists(F, directory)
        F1 == IF mk THEN Makedirs(F, directory) ELSE F
        io1 == IF mk THEN {<<"mkdir", q>> : q \in DOMAIN F1 \ DOMAIN F} ELSE {}
        old == IF isfile(F1, file_path) THEN F1[file_path].data ELSE <<>>
    IN  IF ~GuardPasses(file_path) THEN Outcome(F, FALSE, Msg("write_outside_cwd"), {})
        ELSE IF mk /\ MakedirsRaises(F, directory) THEN Outcome(F, TRUE, NoResult, {})
        ELSE IF isdir(F1, file_path) \/ ~isdir(F1, directory)
             THEN Outcome(F1, FALSE, Msg("error_creating_file"), io1)
        ELSE IF EncodeRaises(content)
             THEN Outcome(PutFile(F1, file_path, FileNode(old, now)), FALSE,
                          Msg("error_creating_file"), io1 \cup {<<"write", file_path>>})
        ELSE Outcome(PutFile(F1, file_path, FileNode(old \o WriteTranslate(content), now)),
                     FALSE,
                     [msg |-> "file_created", rel |-> relpath(file_path, cwd)],
                     io1 \cup {<<"write", file_path>>})

\* create_file(content, filename)
create_file(F, content, filename, now) ==
    LET file_path == abspath(filename)
        directory == dirname(file_path)
        mk == ~exists(F, directory)
        F1 == IF mk THEN Makedirs(F, directory) ELSE F
        io1 == IF mk THEN {<<"mkdir", q>> : q \in DOMAIN F1 \ DOMAIN F} ELSE {}
    IN  IF ~GuardPasses(file_path) THEN Outcome(F, FALSE, Msg("write_outside_cwd"), {})
        ELSE IF mk /\ MakedirsRaises(F, directory) THEN Outcome(F, TRUE, NoResult, {})
        ELSE IF isdir(F1, file_path) \/ ~isdir(F1, directory)
             THEN Outcome(F1, FALSE, Msg("error_creating_file"), io1)
        ELSE IF EncodeRaises(content)
             THEN Outcome(PutFile(F1, file_path, FileNode(<<>>, now)), FALSE,
                          Msg("error_creating_file"), io1 \cup {<<"write", file_path>>})
        ELSE Outcome(PutFile(F1, file_path, FileNode(WriteTranslate(content), now)),
                     FALSE,
                     [msg |-> "file_created", rel |-> relpath(file_path, cwd)],
                     io1 \cup {<<"write", file_path>>})

\* A byte no UTF-8 text contains (0xFF), as found in a binary file.
XFF == "XFF"

\* bytes.decode(encoding): UnicodeDecodeError on an undecodable byte.
DecodeRaises(data, encoding) ==
    encoding = "utf-8" /\ \E i \in 1..Len(data) : data[i] = XFF

Decode(data, encoding) ==
    [i \in 1..Len(data) |-> IF data[i] = XFF THEN "yuml" ELSE data[i]]

\* read_file that opens the path without asking whether it is a regular file.
read_file_without_isfile(F, filename, encoding) ==
    LET file_path == abspath(filename)
    IN  IF ~GuardPasses(file_path) THEN Outcome(F, FALSE, Msg("read_outside_cwd"), {})
        ELSE IF ~exists(F, file_path) THEN Outcome(F, FALSE, Msg("file_does_not_exist"), {})
        ELSE IF ~isfile(F, file_path) THEN Outcome(F, FALSE, Msg("error_reading_file"), {})
        ELSE IF DecodeRaises(F[file_path].data, encoding)
             THEN Outcome(F, FALSE, Msg("not_a_text_file"), {<<"read", file_path>>})
        ELSE Outcome(F, FALSE,
                     [msg |-> "file_content",
                      rel |-> relpath(file_path, cwd),
                      size |-> SizeStr(Len(F[file_path].data)),
                      mtime |-> F[file_path].mtime,
                      body |-> ReadTranslate(Decode(F[file_path].data, encoding))],
                     {<<"read", file_path>>})

\* read_file(filename, encoding)
read_file(F, filename, encoding) ==
    LET file_path == abspath(filename)
    IN  IF ~GuardPasses(file_path) THEN Outcome(F, FALSE, Msg("read_outside_cwd"), {})
        ELSE IF ~exists(F, file_path) THEN Outcome(F, FALSE, Msg("file_does_not_exist"), {})
        ELSE IF ~isfile(F, file_path) THEN Outcome(F, FALSE, Msg("is_not_a_file"), {})
        ELSE IF DecodeRaises(F[file_path].data, encoding)
             THEN Outcome(F, FALSE, Msg("not_a_text_file"), {<<"read", file_path>>})
        ELSE Outcome(F, FALSE,
                     [msg |-> "file_content",
                      rel |-> relpath(file_path, cwd),
                      size |-> SizeStr(Len(F[file_path].data)),
                      mtime |-> F[file_path].mtime,
                      body |-> ReadTranslate(Decode(F[file_path].data, encoding))],
                     {<<"read", file_path>>})

\* One line of the text list_files returns.
Line(kind, name, size, mtime) ==
    [kind |-> kind, name |-> name, size |-> size, mtime |-> mtime]
Heading(kind) == Line(kind, <<>>, SizeStr(0), 0)

\* The lines for the directories, in the order given.
DirLines(names) == [i \in 1..Len(names) |-> Line("dir", names[i], SizeStr(0), 0)]

\* The lines for the files, in the order given, with size and modification time.
FileLines(F, target_dir, names) ==
    [i \in 1..Len(names) |->
        LET node == F[Append(target_dir, names[i])]
        IN  Line("file", names[i], SizeStr(Len(node.data)), node.mtime)]

\* The body of list_files once the target is known to be a directory.
Listing(F, target_dir) ==
    LET items == listdir(F, target_dir)
        dirs == {n \in items : isdir(F, Append(target_dir, n))}
        files == items \ dirs
    IN  IF items = {} THEN [msg |-> "no_files_found", rel |-> relpath(target_dir, cwd)]
        ELSE [msg |-> "listing",
              rel |-> relpath(target_dir, cwd),
              lines |-> <<Heading("title")>>
                  \o (IF dirs # {} THEN <<Heading("dirs_heading")>> \o DirLines(sorted(dirs))
                      ELSE <<>>)
                  \o (IF files # {}
                      THEN <<Heading("files_heading")>>
                           \o FileLines(F, target_dir, sorted(files))
                      ELSE <<>>)]

\* list_files that creates the directory it is asked for when it is missing.
list_files_creating(F, directory) ==
    LET empty == directory = Rel(<<>>)
        target_dir == IF empty THEN cwd ELSE abspath(directory)
        F1 == IF MakedirsRaises(F, target_dir) THEN F ELSE Makedirs(F, target_dir)
    IN  IF ~empty /\ ~GuardPasses(target_dir)
        THEN Outcome(F, FALSE, Msg("list_outside_cwd"), {})
        ELSE IF ~isdir(F1, target_dir) THEN Outcome(F1, FALSE, Msg("is_not_a_directory"), {})
        ELSE Outcome(F1, FALSE, Listing(F1, target_dir), {<<"listdir", target_dir>>})

\* list_files(directory); the empty string lists the working directory.
list_files(F, directory) ==
    LET empty == directory = Rel(<<>>)
        target_dir == IF empty THEN cwd ELSE abspath(directory)
    IN  IF ~empty /\ ~GuardPasses(target_dir)
        THEN Outcome(F, FALSE, Msg("list_outside_cwd"), {})
        ELSE IF ~empty /\ ~exists(F, target_dir)
        THEN Outcome(F, FALSE, Msg("directory_does_not_exist"), {})
        ELSE IF ~isdir(F, target_dir) THEN Outcome(F, FALSE, Msg("is_not_a_directory"), {})
        ELSE Outcome(F, FALSE, Listing(F, target_dir), {<<"listdir", target_dir>>})

----------------------------------------------------------------------------
(* The document tools: list_latex_templates, create_latex_document and      *)
(* compile_latex_document.  What lies outside the working tree (installed   *)
(* packages, the configuration file, the template files, the latexmk        *)
(* binary and what a latexmk run does) is an input of each call.            *)

TEX == <<".", "t", "e", "x">>
PDF == <<".", "p", "d", "f">>

article == <<"a", "r", "t", "i", "c", "l", "e">>
beamer == <<"b", "e", "a", "m", "e", "r">>
memoir == <<"m", "e", "m", "o", "i", "r">>

\* config["latex"]["available_templates"] as DEFAULTS declares it.
available_templates == <<article, beamer>>

Range(seq) == {seq[i] : i \in 1..Len(seq)}

\* An optional argument that was not given (None).
None == <<>>
NoPath == Rel(<<>>)

\* output_filename with '.tex' appended unless it ends with it; the text of a
\* path argument ends with the text of its last component.
EnsureTex(p) ==
    IF p.comps = <<>> THEN [p EXCEPT !.comps = <<TEX>>]
    ELSE IF EndsWith(p.comps[Len(p.comps)], TEX) THEN p
    ELSE [p EXCEPT !.comps[Len(p.comps)] = @ \o TEX]

\* The file a path joined to the working directory names: os.path.join(cwd, p)
\* as the operating system resolves it.
Resolve(p) == Normalize(<<>>, Join(cwd, p))

\* The section files that are not existing regular files, in the order given,
\* reporting only the first of them.
MissingSectionFiles_first_only(F, section_files) ==
    LET IsMissing(sf) == ~isfile(F, Resolve(sf))
        all == SelectSeq(section_files, IsMissing)
    IN  IF all = <<>> THEN <<>> ELSE <<all[1]>>

\* The validation that never finds a section file missing.
MissingSectionFiles_none(F, section_files) == SubSeq(section_files, 1, 0)

\* missing_section_files: the section files that are not existing regular
\* files, in the order given.
MissingSectionFiles(F, section_files) ==
    LET IsMissing(sf) == ~isfile(F, Resolve(sf))
    IN  SelectSeq(section_files, IsMissing)

\* os.path.dirname(os.path.join(cwd, output_filename)) as relpath sees it:
\* the joined path without its last component (taken before normalising, so
\* a final ".." is a name like any other), normalised.
OutputDir(output_filename) ==
    LET joined == Join(cwd, output_filename)
    IN  IF output_filename.comps = <<>> THEN Normalize(<<>>, joined)
        ELSE Normalize(<<>>, SubSeq(joined, 1, Len(joined) - 1))

\* name.replace('\\', '/') for one component of a path: the components the
\* result has.
RECURSIVE SplitBackslash(_)
SplitBackslash(name) ==
    IF \A k \in 1..Len(name) : name[k] # "\\" THEN <<name>>
    ELSE LET k == CHOOSE i \in 1..Len(name) :
                      name[i] = "\\" /\ \A j \in 1..(i - 1) : name[j] # "\\"
         IN  <<SubSeq(name, 1, k - 1)>> \o SplitBackslash(SubSeq(name, k + 1, Len(name)))

\* rel_path.replace('\\', '/')
RECURSIVE ForwardSlashes(_)
ForwardSlashes(rel) ==
    IF rel = <<>> THEN <<>>
    ELSE SplitBackslash(Head(rel)) \o ForwardSlashes(Tail(rel))

\* The \input paths of the sections taken relative to the working directory.
SectionPaths_from_cwd(section_files, output_filename) ==
    [i \in 1..Len(section_files) |->
        ForwardSlashes(relpath(Resolve(section_files[i]), cwd))]

\* The \input paths of the sections: each section's path relative to the
\* directory of the output file, in the order given.
SectionPaths(section_files, output_filename) ==
    [i \in 1..Len(section_files) |->
        ForwardSlashes(relpath(Resolve(section_files[i]), OutputDir(output_filename)))]

\* The variables create_latex_document passes to template.render.
TemplateData(template_type, valid_section_files, abstract_path, institute) ==
    [title |-> None, author |-> None, date |-> None,
     sections |-> valid_section_files,
     abstract |-> IF template_type = article /\ abstract_path # <<>>
                  THEN abstract_path ELSE None,
     institute |-> IF ~(template_type = article /\ abstract_path # <<>>)
                      /\ template_type = beamer /\ institute # None
                   THEN institute ELSE None]

\* create_latex_document(template_type, output_filename, section_files,
\*                       abstract=..., institute=...)
\* fault: what fails outside the tool - "no_jinja2" (ImportError),
\* "config_raises" (ConfigManager() raises), "template_missing"
\* (TemplateNotFound), "render_raises" (template.render raises) - or "none".
create_latex_document(F, template_type, output_filename, section_files, abstract, institute, fault, now) ==
    LET IsMissing(sf) == ~isfile(F, Resolve(sf))
        missing_section_files == MissingSectionFiles(F, section_files)
        IsValid(sf) == ~IsMissing(sf)
        valid_section_files ==
            SectionPaths(SelectSeq(section_files, IsValid), output_filename)
        abstract_path ==
            IF abstract = NoPath THEN <<>>
            ELSE ForwardSlashes(relpath(Resolve(abstract), OutputDir(output_filename)))
        output_path == Resolve(EnsureTex(output_filename))
        template_data ==
            TemplateData(template_type, valid_section_files, abstract_path, institute)
    IN  IF fault = "no_jinja2" THEN Outcome(F, FALSE, Msg("jinja2_not_installed"), {})
        ELSE IF fault = "config_raises" THEN Outcome(F, TRUE, NoResult, {})
        ELSE IF template_type \notin Range(available_templates)
             THEN Outcome(F, FALSE,
                          [msg |-> "invalid_template_type", type |-> template_type,
                           available |-> available_templates], {})
        ELSE IF fault = "template_missing"
             THEN Outcome(F, FALSE, Msg("error_creating_document"), {})
        ELSE IF missing_section_files # <<>>
             THEN Outcome(F, FALSE,
                          [msg |-> "section_files_do_not_exist",
                           missing |-> missing_section_files], {})
        ELSE IF abstract # NoPath /\ ~isfile(F, Resolve(abstract))
             THEN Outcome(F, FALSE,
                          [msg |-> "abstract_does_not_exist", abstract |-> abstract], {})
        ELSE IF fault = "render_raises"
             THEN Outcome(F, FALSE, Msg("error_creating_document"), {})
        ELSE IF isdir(F, output_path) \/ ~isdir(F, dirname(output_path))
             THEN Outcome(F, FALSE, Msg("error_creating_document"), {})
        ELSE Outcome(PutFile(F, output_path, FileNode(<<template_data>>, now)), FALSE,
                     [msg |-> "document_created",
                      rel |-> relpath(output_path, cwd),
                      template |-> template_type,
                      count |-> Len(valid_section_files)],
                     {<<"write", output_path>>})

\* list_latex_templates(); present: the declared templates whose file exists.
list_latex_templates(F, present, fault) ==
    IF fault = "config_raises" THEN Outcome(F, TRUE, NoResult, {})
    ELSE IF available_templates = <<>> THEN Outcome(F, FALSE, Msg("no_templates"), {})
    ELSE LET names == sorted(Range(available_templates))
         IN  Outcome(F, FALSE,
                     [msg |-> "templates",
                      lines |-> [i \in 1..Len(names) |->
                                    [name |-> names[i],
                                     available |-> names[i] \in present]]],
                     {})

\* str.lower on the characters of the compiler's output.
Lower(c) == IF c = "E" THEN "e" ELSE IF c = "R" THEN "r" ELSE IF c = "O" THEN "o" ELSE c
LowerStr(str) == [i \in 1..Len(str) |-> Lower(str[i])]

\* needle in str
Contains(str, needle) ==
    \E i \in 1..(Len(str) - Len(needle) + 1) :
        SubSeq(str, i, i + Len(needle) - 1) = needle

\* str.split('\n')
RECURSIVE SplitLines(_, _)
SplitLines(cur, text) ==
    IF text = <<>> THEN <<cur>>
    ELSE IF Head(text) = LF THEN <<cur>> \o SplitLines(<<>>, Tail(text))
    ELSE SplitLines(Append(cur, Head(text)), Tail(text))

HasErrorMarker(line) == Contains(LowerStr(line), <<"e", "r", "r", "o", "r">>)

\* The failure text: the lines of stdout that contain 'error', else
\* 'Unknown compilation error'.
ErrorMessage(stdout) ==
    LET error_lines == SelectSeq(SplitLines(<<>>, stdout), HasErrorMarker)
    IN  IF error_lines # <<>> THEN [unknown |-> FALSE, lines |-> error_lines]
        ELSE [unknown |-> TRUE, lines |-> <<>>]

\* os.path.splitext(name)[0]
RECURSIVE LastDot(_, _)
LastDot(name, i) ==
    IF i <= 1 THEN 0 ELSE IF name[i] = "." THEN i ELSE LastDot(name, i - 1)
SplitextRoot(name) ==
    LET k == LastDot(name, Len(name))
    IN  IF k = 0 THEN name ELSE SubSeq(name, 1, k - 1)

\* compile_latex_document(tex_file_path)
\* latexmk: how 'latexmk --version' ends - "ok", "missing" (FileNotFoundError),
\* "version_fails" (non-zero exit), "not_executable" (PermissionError).
\* run: what the latexmk run does - its exit code, whether it leaves the .pdf
\* next to the source, its stdout and stderr (both captured; only stdout is
\* examined), and whether subprocess.run raises.
compile_latex_document(F, tex_file_path, latexmk, run, now) ==
    LET file_path == abspath(tex_file_path)
        file_dir == dirname(file_path)
        filename == file_path[Len(file_path)]
        pdf_path == Append(file_dir, SplitextRoot(filename) \o PDF)
        F1 == IF run.pdf /\ ~isdir(F, pdf_path)
              THEN PutFile(F, pdf_path, FileNode(<<"pdf">>, now)) ELSE F
        probe == {<<"exec_version", <<>>>>}
        ran == probe \cup {<<"exec_latexmk", file_path>>}
    IN  IF ~GuardPasses(file_path) THEN Outcome(F, FALSE, Msg("compile_outside_cwd"), {})
        ELSE IF ~exists(F, file_path) THEN Outcome(F, FALSE, Msg("file_does_not_exist"), {})
        ELSE IF ~EndsWith(PathText(file_path), TEX)
             THEN Outcome(F, FALSE, Msg("not_a_tex_file"), {})
        ELSE IF latexmk = "not_executable" THEN Outcome(F, TRUE, NoResult, probe)
        ELSE IF latexmk \in {"missing", "version_fails"}
             THEN Outcome(F, FALSE, Msg("latexmk_not_installed"), probe)
        ELSE IF run.raises
             THEN Outcome(F, FALSE, Msg("error_during_compilation"), ran)
        ELSE IF run.rc # 0 \/ ~exists(F1, pdf_path)
             THEN Outcome(F1, FALSE,
                          [msg |-> "compilation_failed", error |-> ErrorMessage(run.stdout)],
                          ran)
        ELSE Outcome(F1, FALSE,
                     [msg |-> "compiled", rel |-> relpath(pdf_path, cwd)], ran)

\* The texts of the web tools, which may be longer than the ceiling, are
\* sequences of runs: Run(c, n) is character c repeated n times in a row, and
\* neighbouring runs hold different characters.
Run(c, n) == [c |-> c, n |-> n]

\* a + b, for texts whose own neighbouring runs differ.
Cat(a, b) ==
    IF a = <<>> THEN b
    ELSE IF b = <<>> THEN a
    ELSE IF a[Len(a)].c = b[1].c
         THEN SubSeq(a, 1, Len(a) - 1) \o <<Run(b[1].c, a[Len(a)].n + b[1].n)>> \o Tail(b)
    ELSE a \o b

\* The runs with empty runs dropped and neighbours of one character joined
\* (halving the sequence keeps the evaluation shallow).
RECURSIVE Norm(_)
Norm(t) ==
    IF Len(t) = 0 THEN <<>>
    ELSE IF Len(t) = 1 THEN (IF t[1].n = 0 THEN <<>> ELSE <<t[1]>>)
    ELSE LET h == Len(t) \div 2
         IN  Cat(Norm(SubSeq(t, 1, h)), Norm(SubSeq(t, h + 1, Len(t))))

\* A string literal as runs.
Chars(str) == Norm([i \in 1..Len(str) |-> Run(str[i], 1)])

\* len(text)
RECURSIVE TextLen(_)
TextLen(t) ==
    IF Len(t) = 0 THEN 0
    ELSE IF Len(t) = 1 THEN t[1].n
    ELSE LET h == Len(t) \div 2
         IN  TextLen(SubSeq(t, 1, h)) + TextLen(SubSeq(t, h + 1, Len(t)))

\* text[:n]
RECURSIVE Take(_, _)
Take(t, n) ==
    IF Len(t) = 0 \/ n <= 0 THEN <<>>
    ELSE IF Len(t) = 1 THEN <<Run(t[1].c, IF t[1].n < n THEN t[1].n ELSE n)>>
    ELSE LET h == Len(t) \div 2
             left == SubSeq(t, 1, h)
             k == TextLen(left)
         IN  IF n <= k THEN Take(left, n)
             ELSE left \o Take(SubSeq(t, h + 1, Len(t)), n - k)

\* Whitespace as str.strip() sees it.
IsSpace(c) == c \in {" ", "TAB", LF, CR}

\* text.strip()
RECURSIVE StripLeft(_)
StripLeft(t) == IF t # <<>> /\ IsSpace(Head(t).c) THEN StripLeft(Tail(t)) ELSE t
RECURSIVE StripRight(_)
StripRight(t) ==
    IF t # <<>> /\ IsSpace(t[Len(t)].c) THEN StripRight(SubSeq(t, 1, Len(t) - 1)) ELSE t
StripText(t) == StripRight(StripLeft(t))

\* The substitution taking effect from four line feeds on.
CollapseBlankLines_from_four(t) ==
    [i \in 1..Len(t) |-> IF t[i].c = LF /\ t[i].n >= 4 THEN Run(LF, 2) ELSE t[i]]

\* re.sub(r"\n{3,}", "\n\n", text)
CollapseBlankLines(t) ==
    [i \in 1..Len(t) |-> IF t[i].c = LF /\ t[i].n >= 3 THEN Run(LF, 2) ELSE t[i]]

\* A character outside ASCII, and text.encode("ascii", "replace").decode("utf-8").
EACUTE == "eacute"
AsciiReplace(t) ==
    Norm([i \in 1..Len(t) |-> IF t[i].c = EACUTE THEN Run("?", t[i].n) ELSE t[i]])

max_output_length == 100000

\* "\n\n[Content truncated due to length...]"
TruncationMarker ==
    Chars(<<LF, LF, "[", "C", "o", "n", "t", "e", "n", "t", " ", "t", "r", "u", "n", "c",
            "a", "t", "e", "d", " ", "d", "u", "e", " ", "t", "o", " ", "l", "e", "n", "g",
            "t", "h", ".", ".", ".", "]">>)

\* The truncation that cuts one character later.
Truncate_late(t) ==
    IF TextLen(t) > max_output_length + 1
    THEN Cat(Take(t, max_output_length + 1), TruncationMarker)
    ELSE t

\* if len(text) > max_output_length: text[:max_output_length] + marker
Truncate(t) ==
    IF TextLen(t) > max_output_length
    THEN Cat(Take(t, max_output_length), TruncationMarker)
    ELSE t

\* f"Source: {url}\n\n" and f"PDF Source: {url}\n\n"
SourcePrefix(url) ==
    Cat(Chars(<<"S", "o", "u", "r", "c", "e", ":", " ">>), Cat(Chars(url), Chars(<<LF, LF>>)))
PdfSourcePrefix(url) == Cat(Chars(<<"P", "D", "F", " ">>), SourcePrefix(url))

\* visit_webpage(url) and extract_pdf_text(url): every failure is caught in
\* the tool.  outcome: "import_error", "timeout", "request_error",
\* "other_error" or "ok".  text: what markdownify (pymupdf4llm.to_markdown)
\* returns for the fetched page (PDF).
visit_webpage(F, url, outcome, text) ==
    Outcome(F, FALSE,
            CASE outcome = "import_error" -> Msg("install_packages")
              [] outcome = "timeout" -> Msg("request_timed_out")
              [] outcome = "request_error" -> Msg("error_fetching_webpage")
              [] outcome = "other_error" -> Msg("unexpected_error")
              [] OTHER ->
                    [msg |-> "page_content",
                     body |-> Truncate(Cat(SourcePrefix(url),
                                           CollapseBlankLines(StripText(text))))],
            {})

extract_pdf_text(F, url, outcome, text) ==
    Outcome(F, FALSE,
            CASE outcome = "import_error" -> Msg("packages_not_installed")
              [] outcome = "timeout" -> Msg("error_fetching_pdf")
              [] outcome = "request_error" -> Msg("error_fetching_pdf")
              [] outcome = "other_error" -> Msg("error_processing_pdf")
              [] OTHER ->
                    [msg |-> "pdf_content",
                     body |-> Cat(PdfSourcePrefix(url), Truncate(AsciiReplace(text)))],
            {})

----------------------------------------------------------------------------
(* The states of the configuration store and of the interactive loop     *)
(* while they are not running.                                             *)

\* The configuration file: absent, not parseable as TOML, or holding a table.
NoFile == [state |-> "absent", doc |-> <<>>]
Malformed == [state |-> "malformed", doc |-> <<>>]
FileOf(doc) == [state |-> "ok", doc |-> doc]

NoManager ==
    [status |-> "none", config |-> <<>>, loaded |-> <<>>, fileBefore |-> NoFile,
     writes |-> 0]

InitConfigIdle ==
    /\ cfgFile = NoFile
    /\ tmplFiles = {}
    /\ mgr = NoManager

NoIteration ==
    [event |-> [kind |-> "none", text |-> <<>>], outcome |-> "ok", handled |-> "none",
     calls |-> 0, runsBefore |-> <<>>]

InitLoopIdle ==
    /\ pc = "idle"
    /\ iters = 0
    /\ runs = <<>>
    /\ lastIter = NoIteration

----------------------------------------------------------------------------
(* The calls an agent may make.                                            *)

\* Contents written by create_file.
Texts == {<<>>, <<"a", LF, "b">>, <<"a", CR, "b">>, <<SURR>>}

\* Path arguments: inside the working directory, the working directory itself,
\* its parent, a sibling whose name extends the working directory's (/wx),
\* and an unrelated directory (/e), relative and absolute.
PathArgs ==
    {Rel(<<>>), Rel(<<nF>>), Rel(<<nD>>), Rel(<<nS, nF>>), Rel(<<nB, nS, nF>>),
     Rel(<<nD, DOTDOT, nB>>), Rel(<<DOTDOT>>), Rel(<<DOTDOT, nWX, nF>>),
     Rel(<<DOTDOT, nWX>>), Rel(<<DOTDOT, nE, nF>>), Abs(<<nE, nF>>),
     Abs(<<nW, nF>>)}

Encodings == {"utf-8", "latin-1"}

NoArgs == [path |-> Rel(<<>>), content |-> <<>>, encoding |-> ""]
NoCall == [tool |-> "none", args |-> NoArgs, raised |-> FALSE, res |-> Msg("none"),
           io |-> {}, before |-> <<>>]

Record(tool, args, out, F) ==
    [tool |-> tool, args |-> args, raised |-> out.raised, res |-> out.res,
     io |-> out.io, before |-> F]

\* The filesystem at the start: /w holds the directories d (with the document
\* o.tex) and g (empty) and the files a (text) and b (binary); /wx and /e
\* lie outside the working directory.
InitFs ==
    LET paths == {<<>>, <<nW>>, <<nW, nD>>, <<nW, nD, nO \o TEX>>, <<nW, nG>>,
                  <<nW, nA>>, <<nW, nB>>, <<nW, nDO>>, <<nWX>>, <<nWX, nF>>, <<nE>>,
                  <<nE, nF>>}
    IN  [p \in paths |->
            IF p = <<nW, nB>> THEN FileNode(<<XFF>>, 0)
            ELSE IF p \in {<<nW, nA>>, <<nW, nD, nO \o TEX>>, <<nW, nDO>>, <<nWX, nF>>,
                            <<nE, nF>>}
                 THEN FileNode(<<"a">>, 0)
            ELSE DirNode]

InitTools ==
    /\ fs = InitFs
    /\ clock = 0
    /\ docCalls = 0
    /\ last = NoCall
    /\ prev = NoCall

Init ==
    /\ InitTools
    /\ InitConfigIdle
    /\ InitLoopIdle

\* The call before the last is remembered for the file tools only.
Remembered(call) ==
    IF call.tool \in {"create_file", "read_file", "list_files"} THEN call
    ELSE [NoCall EXCEPT !.tool = call.tool]

Returns(tool, args, out) ==
    /\ clock < MaxCalls
    /\ clock' = clock + 1
    /\ fs' = out.fs
    /\ prev' = Remembered(last)
    /\ last' = Record(tool, args, out, fs)
    /\ UNCHANGED <<cfgVars, loopVars>>

Return(tool, args, out) ==
    /\ Returns(tool, args, out)
    /\ UNCHANGED docCalls

ReturnDoc(tool, args, out) ==
    /\ docCalls < MaxDocCalls
    /\ docCalls' = docCalls + 1
    /\ Returns(tool, args, out)

CreateFile ==
    \E content \in Texts, filename \in PathArgs :
        Return("create_file",
               [path |-> filename, content |-> content, encoding |-> "utf-8"],
               create_file(fs, content, filename, clock + 1))

ReadFile ==
    \E filename \in PathArgs, encoding \in Encodings :
        Return("read_file",
               [path |-> filename, content |-> <<>>, encoding |-> encoding],
               read_file(fs, filename, encoding))

ListFiles ==
    \E directory \in PathArgs :
        Return("list_files",
               [path |-> directory, content |-> <<>>, encoding |-> ""],
               list_files(fs, directory))

Next == CreateFile \/ ReadFile \/ ListFiles

Spec == Init /\ [][Next]_vars

\* Longest section_files list of a create_latex_document call.
MaxSections == 2

TemplateTypes == {article, beamer, memoir}
OutputArgs ==
    {Rel(<<nO>>), Rel(<<nD, nO \o TEX>>), Rel(<<DOTDOT, nE, nO>>), Rel(<<nD, DOTDOT>>)}
SectionArgs == {Rel(<<nA>>), Rel(<<nDO>>), Rel(<<nF>>), Rel(<<nD>>)}
SectionLists == UNION {[1..n -> SectionArgs] : n \in 0..MaxSections}
AbstractArgs == {NoPath, Rel(<<nA>>), Rel(<<nF>>)}
Institutes == {None, <<"i">>}
LatexFaults == {"none", "no_jinja2", "config_raises", "template_missing", "render_raises"}

LatexArgs(template_type, output_filename, section_files, abstract, institute, fault) ==
    [template_type |-> template_type, output_filename |-> output_filename,
     section_files |-> section_files, abstract |-> abstract,
     institute |-> institute, fault |-> fault]

\* The calls of create_latex_document: every section list with every output
\* name for one template, and with the section lists of at most one file
\* every template with every fault that reads the arguments and with every
\* abstract and institute, and the two faults that precede every argument.
LatexCalls ==
    {LatexArgs(article, o, sf, NoPath, None, "none") :
        o \in OutputArgs, sf \in SectionLists}
    \cup {LatexArgs(t, o, sf, NoPath, None, fault) :
        t \in TemplateTypes, o \in OutputArgs,
        sf \in {l \in SectionLists : Len(l) <= 1},
        fault \in {"none", "template_missing", "render_raises"}}
    \cup {LatexArgs(t, o, sf, ab, inst, "none") :
        t \in TemplateTypes, o \in OutputArgs,
        sf \in {l \in SectionLists : Len(l) <= 1},
        ab \in AbstractArgs, inst \in Institutes}
    \cup {LatexArgs(article, Rel(<<nO>>), <<>>, NoPath, None, fault) :
        fault \in {"no_jinja2", "config_raises"}}

CreateLatexDocument ==
    \E c \in LatexCalls :
        ReturnDoc("create_latex_document", c,
                  create_latex_document(fs, c.template_type, c.output_filename,
                                        c.section_files, c.abstract, c.institute,
                                        c.fault, clock + 1))

ListLatexTemplates ==
    \E present \in SUBSET Range(available_templates), fault \in {"none", "config_raises"} :
        Return("list_latex_templates", [present |-> present, fault |-> fault],
               list_latex_templates(fs, present, fault))

TexArgs ==
    {Rel(<<nD, nO \o TEX>>), Rel(<<nA>>), Rel(<<nF \o TEX>>), Rel(<<DOTDOT, nWX, nF>>),
     Rel(<<DOTDOT, nE, nF>>)}
LatexmkStates == {"ok", "missing", "version_fails", "not_executable"}
Stdouts ==
    {<<>>, <<"o", "k">>,
     <<"!", "E", "r", "r", "o", "r", LF, "o", "k", LF, "e", "r", "r", "o", "r", "s">>}
\* What latexmk may write to its standard error, which is captured too.
Stderrs == {<<>>, <<"L", ":", " ", "E", "r", "r", "o", "r", "s">>}
NoRun == [rc |-> 0, pdf |-> FALSE, stdout |-> <<>>, stderr |-> <<>>, raises |-> FALSE]
\* What a latexmk run may do; it is drawn only when latexmk is started.
Runs ==
    {[rc |-> rc, pdf |-> pdf, stdout |-> out, stderr |-> err, raises |-> FALSE] :
        rc \in {0, 1}, pdf \in BOOLEAN, out \in Stdouts, err \in Stderrs}
    \cup {[NoRun EXCEPT !.raises = TRUE]}

CompileLatexDocument ==
    \E tex_file_path \in TexArgs, latexmk \in LatexmkStates,
       run \in Runs :
        /\ latexmk # "ok" => run = NoRun
        /\ ReturnDoc("compile_latex_document",
                     [path |-> tex_file_path, latexmk |-> latexmk, run |-> run],
                     compile_latex_document(fs, tex_file_path, latexmk, run, clock + 1))

WebOutcomes == {"ok", "import_error", "timeout", "request_error", "other_error"}

\* The URLs of the web tools.
Urls == {<<"u">>, <<"h", "t", "t", "p", ":", "/", "/", "e", "/", "p">>}

\* What the converter returns for the fetched document: nothing, a short text
\* with blank lines, spaces around it and a non-ASCII character, and long
\* texts whose length is at, just below and just above the ceiling, with and
\* without the prefix of the shortest URL counted.
WebTexts ==
    {<<>>, <<Run(" ", 2)>>,
     <<Run(" ", 1), Run("a", 1), Run(LF, 4), Run(EACUTE, 2), Run("b", 1), Run(LF, 1)>>,
     <<Run("a", 1), Run(LF, 1), Run("b", 1), Run(LF, 2), Run("c", 1), Run(LF, 3),
       Run("d", 1), Run(LF, 5), Run("e", 1)>>,
     <<Run("a", 1), Run(LF, 1), Run(" ", 1), Run(LF, 1), Run(" ", 1), Run(LF, 1),
       Run(" ", 1), Run(LF, 1), Run("b", 1)>>,
     <<Run("x", max_output_length - TextLen(SourcePrefix(<<"u">>)))>>,
     <<Run("x", max_output_length - TextLen(SourcePrefix(<<"u">>))), Run("y", 1)>>,
     <<Run("x", max_output_length - 1), Run(EACUTE, 1)>>,
     <<Run("x", max_output_length - 1), Run(EACUTE, 1), Run("z", 3)>>}

WebArgs(url, outcome, text) == [url |-> url, outcome |-> outcome, text |-> text]

\* The calls of a web tool: a text is converted only when the fetch succeeded.
WebCalls ==
    {WebArgs(url, "ok", text) : url \in Urls, text \in WebTexts}
    \cup {WebArgs(<<"u">>, outcome, <<>>) : outcome \in WebOutcomes \ {"ok"}}

VisitWebpage ==
    \E c \in WebCalls :
        Return("visit_webpage", c, visit_webpage(fs, c.url, c.outcome, c.text))

ExtractPdfText ==
    \E c \in WebCalls :
        Return("extract_pdf_text", c, extract_pdf_text(fs, c.url, c.outcome, c.text))

\* Every tool an agent can call.
NextTools ==
    \/ CreateFile
    \/ ReadFile
    \/ ListFiles
    \/ ListLatexTemplates
    \/ CreateLatexDocument
    \/ CompileLatexDocument
    \/ VisitWebpage
    \/ ExtractPdfText

SpecTools == Init /\ [][NextTools]_vars

\* The web tools alone.
NextWeb == VisitWebpage \/ ExtractPdfText

SpecWeb == Init /\ [][NextWeb]_vars

\* The document tools alone.
NextDoc == CreateLatexDocument \/ CompileLatexDocument \/ ListLatexTemplates

SpecDoc == Init /\ [][NextDoc]_vars

----------------------------------------------------------------------------
(* The configuration store (config.py).  A configuration is a TOML table:  *)
(* a function from its keys to values, each a scalar, a list or a table.   *)

S(x) == [t |-> "scalar", s |-> x]
L(x) == [t |-> "list", l |-> x]
M(x) == [t |-> "map", m |-> x]

\* isinstance(v, dict)
IsDict(v) == v.t = "map"

\* DEFAULTS, with one agent section (orchestrator) standing for the five, and
\* without the file_saving and file_listing sections and the prompt texts.
DEFAULTS ==
    [initialized |-> S("false"),
     orchestrator |-> M([model |-> S("default-model"), api_key |-> S("")]),
     latex |-> M([templates_directory |-> S("templates"),
                  available_templates |-> L(<<article, beamer>>),
                  default_template |-> S("article")])]

\* update_recursively that replaces a value which is not a table by the
\* default table.
RECURSIVE update_recursively_overwriting(_, _)
update_recursively_overwriting(config, defaults) ==
    LET sub(k) == update_recursively_overwriting(config[k].m, defaults[k].m)
        nested(k) == k \in DOMAIN config /\ IsDict(defaults[k]) /\ IsDict(config[k])
        replaced(k) == k \in DOMAIN config /\ IsDict(defaults[k]) /\ ~IsDict(config[k])
    IN  [config |->
            [k \in DOMAIN config \cup DOMAIN defaults |->
                IF k \notin DOMAIN config \/ (k \in DOMAIN defaults /\ replaced(k))
                THEN defaults[k]
                ELSE IF k \in DOMAIN defaults /\ nested(k) THEN M(sub(k).config)
                ELSE config[k]],
         changed |->
            \E k \in DOMAIN defaults :
                k \notin DOMAIN config \/ replaced(k) \/ (nested(k) /\ sub(k).changed)]

\* update_recursively(config, defaults): the configuration with the missing
\* default keys added, and whether any was added.
RECURSIVE update_recursively(_, _)
update_recursively(config, defaults) ==
    LET sub(k) == update_recursively(config[k].m, defaults[k].m)
        nested(k) == k \in DOMAIN config /\ IsDict(defaults[k]) /\ IsDict(config[k])
    IN  [config |->
            [k \in DOMAIN config \cup DOMAIN defaults |->
                IF k \notin DOMAIN config THEN defaults[k]
                ELSE IF k \in DOMAIN defaults /\ nested(k) THEN M(sub(k).config)
                ELSE config[k]],
         changed |->
            \E k \in DOMAIN defaults :
                k \notin DOMAIN config \/ (nested(k) /\ sub(k).changed)]

\* tomli_w.dump / tomli.load: tables of strings, booleans and lists of
\* strings are written and read back as they are.
dump(config) == FileOf(config)
load(file) == file.doc

\* The templates shipped with the package.
package_templates == {article, beamer}

\* ensure_latex_templates raises when config["latex"] is not a table.
LatexTemplatesRaises(config) == ~IsDict(config["latex"])

\* ensure_latex_templates: the template files afterwards.
ensure_latex_templates(config, files) ==
    LET declared == config["latex"].m["available_templates"]
        names == IF declared.t = "list" THEN Range(declared.l) ELSE {}
    IN  files \cup (names \cap package_templates)

\* ConfigManager() that saves after the merge whether or not a key was added.
ConfigManager_always_saving(file, files) ==
    LET file1 == IF file.state = "absent" THEN dump(DEFAULTS) ELSE file
        w1 == IF file.state = "absent" THEN 1 ELSE 0
        loaded == load(file1)
        merged == update_recursively(loaded, DEFAULTS)
        file2 == dump(merged.config)
        w2 == w1 + 1
        made(status, cfg, f, w) ==
            [status |-> status, config |-> cfg, loaded |-> loaded, fileBefore |-> file,
             writes |-> w]
    IN  IF file1.state = "malformed"
        THEN [file |-> file1, files |-> files,
              mgr |-> [NoManager EXCEPT !.status = "raised", !.fileBefore = file]]
        ELSE IF LatexTemplatesRaises(merged.config)
        THEN [file |-> file2, files |-> files,
              mgr |-> made("raised", merged.config, file2, w2)]
        ELSE [file |-> file2, files |-> ensure_latex_templates(merged.config, files),
              mgr |-> made("ok", merged.config, file2, w2)]

\* ConfigManager(): the file and the template files afterwards, and the
\* manager (status "raised" when construction raised).
ConfigManager(file, files) ==
    LET file1 == IF file.state = "absent" THEN dump(DEFAULTS) ELSE file
        w1 == IF file.state = "absent" THEN 1 ELSE 0
        loaded == load(file1)
        merged == update_recursively(loaded, DEFAULTS)
        file2 == IF merged.changed THEN dump(merged.config) ELSE file1
        w2 == IF merged.changed THEN w1 + 1 ELSE w1
        made(status, cfg, f, w) ==
            [status |-> status, config |-> cfg, loaded |-> loaded, fileBefore |-> file,
             writes |-> w]
    IN  IF file1.state = "malformed"
        THEN [file |-> file1, files |-> files,
              mgr |-> [NoManager EXCEPT !.status = "raised", !.fileBefore = file]]
        ELSE IF LatexTemplatesRaises(merged.config)
        THEN [file |-> file2, files |-> files,
              mgr |-> made("raised", merged.config, file2, w2)]
        ELSE [file |-> file2, files |-> ensure_latex_templates(merged.config, files),
              mgr |-> made("ok", merged.config, file2, w2)]

\* Number of ConfigManager constructions and edits of config.toml in one run
\* of the model.
MaxConstructs == 3

\* What a user may have put under each top-level key of config.toml.
InitializedValues == {S("true"), S("false")}
OrchestratorValues ==
    {S("x"), M(<<>>), M([model |-> S("mine")]),
     M([model |-> S("mine"), api_key |-> S("key"), extra |-> S("z")]),
     M([model |-> M([name |-> S("mine")])])}
LatexValues ==
    {S("x"), M(<<>>), M([available_templates |-> L(<<article>>)]),
     M([templates_directory |-> S("mine"), available_templates |-> L(<<memoir>>),
        default_template |-> S("memoir")])}

\* A table from the chosen values; Absent leaves the key out.
Absent == [t |-> "absent"]
Table(i, o, l, c) ==
    LET keys == {k \in {"initialized", "orchestrator", "latex", "custom"} :
                    (k = "initialized" /\ i.t # "absent")
                    \/ (k = "orchestrator" /\ o.t # "absent")
                    \/ (k = "latex" /\ l.t # "absent")
                    \/ (k = "custom" /\ c.t # "absent")}
    IN  [k \in keys |->
            IF k = "initialized" THEN i ELSE IF k = "orchestrator" THEN o
            ELSE IF k = "latex" THEN l ELSE c]

PersistedConfigs ==
    {FileOf(Table(i, o, l, c)) :
        i \in InitializedValues \cup {Absent}, o \in OrchestratorValues \cup {Absent},
        l \in LatexValues \cup {Absent}, c \in {S("u"), Absent}}
    \cup {NoFile, Malformed}

InitConfig ==
    /\ InitTools
    /\ InitLoopIdle
    /\ cfgFile \in PersistedConfigs
    /\ tmplFiles \in {{}, {article}}
    /\ mgr = NoManager

\* config_manager = ConfigManager()
Construct ==
    /\ clock < MaxConstructs
    /\ LET made == ConfigManager(cfgFile, tmplFiles)
       IN  /\ cfgFile' = made.file
           /\ tmplFiles' = made.files
           /\ mgr' = made.mgr
    /\ clock' = clock + 1
    /\ UNCHANGED <<fs, docCalls, last, prev, loopVars>>

\* config_manager.reload()
Reload ==
    /\ mgr.status = "ok"
    /\ cfgFile.state = "ok"
    /\ mgr' = [mgr EXCEPT !.config = load(cfgFile)]
    /\ UNCHANGED <<toolVars, cfgFile, tmplFiles, loopVars>>

\* config_manager.save()
Save ==
    /\ mgr.status = "ok"
    /\ cfgFile' = dump(mgr.config)
    /\ UNCHANGED <<toolVars, tmplFiles, mgr, loopVars>>

\* What an edit of config.toml may leave: the file deleted, initialized set
\* to true, or the agent section replaced.
Edits(file) ==
    {NoFile}
    \cup (IF file.state # "ok" THEN {}
          ELSE {FileOf([k \in DOMAIN file.doc \cup {"initialized"} |->
                           IF k = "initialized" THEN S("true") ELSE file.doc[k]])}
               \cup {FileOf([k \in DOMAIN file.doc \cup {"orchestrator"} |->
                                IF k = "orchestrator" THEN o ELSE file.doc[k]]) :
                         o \in OrchestratorValues})

\* The user edits config.toml between two runs.
EditFile ==
    /\ clock < MaxConstructs
    /\ mgr.status # "none"
    /\ cfgFile' \in Edits(cfgFile) \ {cfgFile}
    /\ clock' = clock + 1
    /\ UNCHANGED <<fs, docCalls, last, prev, tmplFiles, mgr, loopVars>>

NextConfig == Construct \/ Reload \/ Save \/ EditFile

SpecConfig == InitConfig /\ [][NextConfig]_vars

----------------------------------------------------------------------------
(* The interactive loop of main() (__main__.py).                           *)

\* str.lower on the letters the model uses.
LowerCase ==
    [A |-> "a", B |-> "b", E |-> "e", I |-> "i", O |-> "o", Q |-> "q", R |-> "r",
     T |-> "t", U |-> "u", X |-> "x", Y |-> "y"]
lower(str) ==
    [i \in 1..Len(str) |-> IF str[i] \in DOMAIN LowerCase THEN LowerCase[str[i]] ELSE str[i]]

\* str.strip()
RECURSIVE lstrip(_)
lstrip(str) ==
    IF str # <<>> /\ IsSpace(Head(str)) THEN lstrip(Tail(str)) ELSE str
RECURSIVE rstrip(_)
rstrip(str) ==
    IF str # <<>> /\ IsSpace(str[Len(str)]) THEN rstrip(SubSeq(str, 1, Len(str) - 1))
    ELSE str
strip(str) == rstrip(lstrip(str))

\* ['exit', 'quit', 'q', 'bye']
ExitKeywords ==
    {<<"e", "x", "i", "t">>, <<"q", "u", "i", "t">>, <<"q">>, <<"b", "y", "e">>}

\* One iteration of the loop that ignores only the line that is empty.
Iteration_ignoring_empty_only(event, outcome) ==
    IF event.kind = "interrupt" THEN [handled |-> "interrupted", calls |-> 0, stop |-> TRUE]
    ELSE IF event.kind = "eof" THEN [handled |-> "error", calls |-> 0, stop |-> FALSE]
    ELSE IF lower(event.text) \in ExitKeywords
         THEN [handled |-> "exit", calls |-> 0, stop |-> TRUE]
    ELSE IF event.text = <<>>
         THEN [handled |-> "ignored", calls |-> 0, stop |-> FALSE]
    ELSE IF outcome = "KeyboardInterrupt"
         THEN [handled |-> "interrupted", calls |-> 1, stop |-> TRUE]
    ELSE IF outcome = "Exception"
         THEN [handled |-> "error", calls |-> 1, stop |-> FALSE]
    ELSE [handled |-> "answered", calls |-> 1, stop |-> FALSE]

\* One iteration of the loop that calls the agent again when it raised.
Iteration_retrying(event, outcome) ==
    IF event.kind = "interrupt" THEN [handled |-> "interrupted", calls |-> 0, stop |-> TRUE]
    ELSE IF event.kind = "eof" THEN [handled |-> "error", calls |-> 0, stop |-> FALSE]
    ELSE IF lower(event.text) \in ExitKeywords
         THEN [handled |-> "exit", calls |-> 0, stop |-> TRUE]
    ELSE IF strip(event.text) = <<>>
         THEN [handled |-> "ignored", calls |-> 0, stop |-> FALSE]
    ELSE IF outcome = "KeyboardInterrupt"
         THEN [handled |-> "interrupted", calls |-> 1, stop |-> TRUE]
    ELSE IF outcome = "Exception"
         THEN [handled |-> "error", calls |-> 2, stop |-> FALSE]
    ELSE [handled |-> "answered", calls |-> 1, stop |-> FALSE]

\* One iteration of the while loop.  event: what input() does - returns a
\* line, or raises KeyboardInterrupt (Ctrl-C) or EOFError.  outcome: what
\* manager_agent.run does when it is called - returns ("ok") or raises
\* KeyboardInterrupt or another Exception.
\* handled: "exit" and "interrupted" leave the loop (break); "ignored" is the
\* continue; "error" is the except Exception branch; "answered" prints the
\* results.  calls: how many times manager_agent.run was called.
Iteration(event, outcome) ==
    IF event.kind = "interrupt" THEN [handled |-> "interrupted", calls |-> 0, stop |-> TRUE]
    ELSE IF event.kind = "eof" THEN [handled |-> "error", calls |-> 0, stop |-> FALSE]
    ELSE IF lower(event.text) \in ExitKeywords
         THEN [handled |-> "exit", calls |-> 0, stop |-> TRUE]
    ELSE IF strip(event.text) = <<>>
         THEN [handled |-> "ignored", calls |-> 0, stop |-> FALSE]
    ELSE IF outcome = "KeyboardInterrupt"
         THEN [handled |-> "interrupted", calls |-> 1, stop |-> TRUE]
    ELSE IF outcome = "Exception"
         THEN [handled |-> "error", calls |-> 1, stop |-> FALSE]
    ELSE [handled |-> "answered", calls |-> 1, stop |-> FALSE]

\* Number of iterations of the loop in one run of the model.
MaxIters == 3

Line_(text) == [kind |-> "line", text |-> text]

\* What input() may do.
InputEvents ==
    {Line_(<<"e", "x", "i", "t">>), Line_(<<"Q", "U", "I", "T">>), Line_(<<"q">>),
     Line_(<<"B", "y", "e">>), Line_(<<>>), Line_(<<" ">>), Line_(<<" ", "TAB">>),
     Line_(<<"e", "x", "i", "t", " ">>), Line_(<<"a", "i">>), Line_(<<" ", "q", "a">>),
     [kind |-> "interrupt", text |-> <<>>], [kind |-> "eof", text |-> <<>>]}

\* What manager_agent.run may do.
RunOutcomes == {"ok", "Exception", "KeyboardInterrupt"}

InitLoop ==
    /\ InitTools
    /\ InitConfigIdle
    /\ pc = "prompt"
    /\ iters = 0
    /\ runs = <<>>
    /\ lastIter = NoIteration

\* One pass through the body of "while True".
LoopIteration ==
    /\ pc = "prompt"
    /\ iters < MaxIters
    /\ \E event \in InputEvents, outcome \in RunOutcomes :
        LET it == Iteration(event, outcome)
        IN  /\ it.calls = 0 => outcome = "ok"
            /\ runs' = runs \o [i \in 1..it.calls |-> event.text]
            /\ pc' = IF it.stop THEN "done" ELSE "prompt"
            /\ lastIter' = [event |-> event, outcome |-> outcome, handled |-> it.handled,
                            calls |-> it.calls, runsBefore |-> runs]
    /\ iters' = iters + 1
    /\ UNCHANGED <<toolVars, cfgVars>>

NextLoop == LoopIteration

SpecLoop == InitLoop /\ [][NextLoop]_vars

\* bool(v) of a value read from config.toml: false for the boolean false, the
\* empty string, the empty list and the empty table.
Truthy(v) ==
    CASE v.t = "scalar" -> v.s \notin {"false", ""}
      [] v.t = "list" -> v.l # <<>>
      [] v.t = "map" -> DOMAIN v.m # {}

\* main() up to the loop: the configuration file and the template files
\* afterwards, the manager, and where main() is then - "raised" when
\* ConfigManager() or the construction of the models raised, "notice" when it
\* printed the notice and returned, "prompt" when it entered the loop.
main(file, files) ==
    LET made == ConfigManager(file, files)
        config == made.mgr.config
    IN  [file |-> made.file, files |-> made.files, mgr |-> made.mgr,
         pc |-> IF made.mgr.status = "raised" THEN "raised"
                ELSE IF ~Truthy(config["initialized"]) THEN "notice"
                ELSE IF ~IsDict(config["orchestrator"]) THEN "raised"
                ELSE "prompt"]

\* The configuration files main() may find: none, an unparseable one, and
\* tables with initialized a boolean, the string "no", the empty string or
\* absent, and with the agent section a table, a string or absent.
MainConfigs ==
    {NoFile, Malformed}
    \cup {FileOf(Table(i, o, Absent, Absent)) :
            i \in InitializedValues \cup {S("no"), S(""), Absent},
            o \in {M([model |-> S("mine")]), S("x"), Absent}}

InitMain ==
    /\ InitTools
    /\ cfgFile \in MainConfigs
    /\ tmplFiles = {}
    /\ mgr = NoManager
    /\ pc = "start"
    /\ iters = 0
    /\ runs = <<>>
    /\ lastIter = NoIteration

\* The program is started: main() runs up to the loop or to its return.
Main ==
    /\ pc = "start"
    /\ clock < MaxConstructs
    /\ LET m == main(cfgFile, tmplFiles)
       IN  /\ cfgFile' = m.file
           /\ tmplFiles' = m.files
           /\ mgr' = m.mgr
           /\ pc' = m.pc
    /\ clock' = clock + 1
    /\ UNCHANGED <<fs, docCalls, last, prev, iters, runs, lastIter>>

\* The program has ended; the user edits config.toml, or leaves it, and is
\* about to start the program again, which has forwarded no request yet.
Restart ==
    /\ pc \in {"notice", "raised", "done"}
    /\ clock < MaxConstructs
    /\ cfgFile' \in Edits(cfgFile) \cup {cfgFile}
    /\ pc' = "start"
    /\ runs' = <<>>
    /\ clock' = clock + 1
    /\ UNCHANGED <<fs, docCalls, last, prev, tmplFiles, mgr, iters, lastIter>>

NextMain == Main \/ LoopIteration \/ Restart

SpecMain == InitMain /\ [][NextMain]_vars

----------------------------------------------------------------------------
(* Claims about the file tools, checked under Spec.                        *)

FileTools == {"create_file", "read_file", "list_files"}
ContainmentMsgs == {"write_outside_cwd", "read_outside_cwd", "list_outside_cwd"}

\* The path a file tool call works on: the working directory for list_files("").
TargetOf(call) ==
    IF call.tool = "list_files" /\ call.args.path = Rel(<<>>) THEN cwd
    ELSE abspath(call.args.path)

\* C1: a file tool called with a path that is neither the working directory
\* nor below it returns its containment-violation message and performs no
\* filesystem I/O (nothing is created, modified, read or listed).
C1_OutsidePathsRejected ==
    (last.tool \in FileTools /\ ~InsideCwd(TargetOf(last)))
        => /\ ~last.raised
           /\ last.res.msg \in ContainmentMsgs
           /\ last.io = {}
           /\ fs = last.before

\* C3: create_file(content, p) that succeeded on a path inside the working
\* directory, followed immediately by read_file(p) in the default encoding,
\* returns the metadata header followed by exactly the content written.
C3_RoundTrip ==
    (/\ prev.tool = "create_file"
     /\ prev.res.msg = "file_created"
     /\ InsideCwd(abspath(prev.args.path))
     /\ last.tool = "read_file"
     /\ last.args.encoding = "utf-8"
     /\ abspath(last.args.path) = abspath(prev.args.path))
        => /\ last.res.msg = "file_content"
           /\ last.res.body = prev.args.content

\* The positions of the lines of one kind in a listing.
LinesOf(lines, kind) == {i \in 1..Len(lines) : lines[i].kind = kind}

\* C10: list_files on a target inside the working tree: "Directory does not
\* exist" when it is missing, "is not a directory" when it is not one, "No
\* files found" when it is an empty directory; otherwise every entry appears
\* exactly once, the subdirectories under the Directories heading before the
\* files under the Files heading, each group in ascending (code point) order;
\* the empty argument lists the working directory.
C10_ListFiles ==
    (last.tool = "list_files" /\ InsideCwd(TargetOf(last))) =>
        LET F == last.before
            t == TargetOf(last)
            entries == listdir(F, t)
            subdirs == {n \in entries : isdir(F, Append(t, n))}
            lines == last.res.lines
            D == LinesOf(lines, "dir")
            N == LinesOf(lines, "file")
        IN  /\ ~last.raised
            /\ fs = F
            /\ last.args.path = Rel(<<>>) => t = cwd /\ last.res.msg # "list_outside_cwd"
            /\ ~exists(F, t) => last.res.msg = "directory_does_not_exist"
            /\ (exists(F, t) /\ ~isdir(F, t)) => last.res.msg = "is_not_a_directory"
            /\ (isdir(F, t) /\ entries = {}) => last.res.msg = "no_files_found"
            /\ (isdir(F, t) /\ entries # {}) =>
                /\ last.res.msg = "listing"
                /\ \A n \in subdirs : Cardinality({i \in D : lines[i].name = n}) = 1
                /\ \A n \in entries \ subdirs :
                       Cardinality({i \in N : lines[i].name = n}) = 1
                /\ \A i \in D : lines[i].name \in subdirs
                /\ \A i \in N : lines[i].name \in entries \ subdirs
                /\ \A i \in D, j \in N : i < j
                /\ \A i \in D : \E h \in LinesOf(lines, "dirs_heading") : h < i
                /\ \A j \in N : \E h \in LinesOf(lines, "files_heading") :
                       h < j /\ \A i \in D : i < h
                /\ \A i, j \in D : i < j => StrLess(lines[i].name, lines[j].name)
                /\ \A i, j \in N : i < j => StrLess(lines[i].name, lines[j].name)

\* A listing with at least two subdirectories and two files has been returned.
C10_Witness ==
    /\ last.tool = "list_files"
    /\ last.res.msg = "listing"
    /\ Cardinality(LinesOf(last.res.lines, "dir")) >= 2
    /\ Cardinality(LinesOf(last.res.lines, "file")) >= 2

----------------------------------------------------------------------------
(* Claims about the document tools and about every tool.                   *)

DocTools == {"create_latex_document", "compile_latex_document"}

\* The reads, writes and listings a tool's own code performs.
OwnIO == {"write", "mkdir", "read", "listdir"}

\* C2 (for the document tools): create_latex_document and
\* compile_latex_document never create, overwrite or read a file outside the
\* working directory tree, whatever their path arguments are.
C2_DocToolsStayInside ==
    last.tool \in DocTools =>
        \A op \in last.io : op[1] \in OwnIO => InsideCwd(op[2])

\* C6: every tool call ends by returning a string; no exception leaves a tool.
C6_NoExceptionLeavesATool == ~last.raised

\* Some section file of the last create_latex_document call is not an
\* existing regular file.
SomeSectionMissing ==
    /\ last.tool = "create_latex_document"
    /\ \E i \in 1..Len(last.args.section_files) :
           ~isfile(last.before, Resolve(last.args.section_files[i]))

\* The positions in section_files of the files that are not existing regular files.
MissingPositions ==
    {i \in 1..Len(last.args.section_files) :
        ~isfile(last.before, Resolve(last.args.section_files[i]))}

\* The error names every missing section file and no existing one.
NamesExactlyTheMissing ==
    /\ last.res.msg = "section_files_do_not_exist"
    /\ Len(last.res.missing) = Cardinality(MissingPositions)
    /\ \A i \in MissingPositions :
           \E j \in 1..Len(last.res.missing) :
               last.res.missing[j] = last.args.section_files[i]
    /\ \A j \in 1..Len(last.res.missing) :
           ~isfile(last.before, Resolve(last.res.missing[j]))

\* C7 as stated: whenever jinja2 and the configuration are usable and the
\* template file loads, a call with a section file that is not an existing
\* regular file returns the error naming every missing path and no existing
\* one, and writes no output file.
C7_AsStated ==
    (SomeSectionMissing /\ last.args.fault = "none")
        => NamesExactlyTheMissing /\ fs = last.before

\* The call got as far as validating its section files: the template type is
\* declared and the template was loaded.
ReachedSectionValidation ==
    /\ last.args.fault \notin {"no_jinja2", "config_raises", "template_missing"}
    /\ last.args.template_type \in Range(available_templates)

\* C7 (amended): a call with a section file that is not an existing regular
\* file writes nothing (the output path is neither created nor modified);
\* when the template type is declared and its template loads, it returns the
\* error naming every missing path and no existing one.
C7_MissingSections ==
    SomeSectionMissing =>
        /\ fs = last.before
        /\ last.res.msg # "document_created"
        /\ ReachedSectionValidation => NamesExactlyTheMissing

\* A call whose output file exists, with a missing section file and an
\* existing one, has returned the missing-sections error.
C7_Witness ==
    /\ SomeSectionMissing
    /\ ReachedSectionValidation
    /\ last.res.msg = "section_files_do_not_exist"
    /\ Cardinality(MissingPositions) < Len(last.args.section_files)
    /\ isfile(last.before, Resolve(EnsureTex(last.args.output_filename)))

----------------------------------------------------------------------------
(* Claims about the configuration store, checked under SpecConfig.         *)

\* Every key of defaults is in config at the same path, recursively.
RECURSIVE HasAllDefaults(_, _)
HasAllDefaults(config, defaults) ==
    \A k \in DOMAIN defaults :
        /\ k \in DOMAIN config
        /\ IsDict(defaults[k]) =>
               IsDict(config[k]) /\ HasAllDefaults(config[k].m, defaults[k].m)

\* C4: after a ConfigManager construction that returned, whatever the
\* persisted configuration held, every key of DEFAULTS is in the loaded
\* configuration at the same nesting path, recursively.
C4_AllDefaultsPresent ==
    [][(Construct /\ mgr'.status = "ok") => HasAllDefaults(mgr'.config, DEFAULTS)]_vars

\* Every key of old is in new with the same value: a table is still a table
\* holding what it held, anything else is equal.
RECURSIVE Preserved(_, _)
Preserved(old, new) ==
    \A k \in DOMAIN old :
        /\ k \in DOMAIN new
        /\ IF IsDict(old[k]) THEN IsDict(new[k]) /\ Preserved(old[k].m, new[k].m)
           ELSE new[k] = old[k]

\* The keys of new that old does not have are keys of defaults, with the
\* default value; tables the defaults do not describe are as they were.
RECURSIVE OnlyAdds(_, _, _)
OnlyAdds(old, new, defaults) ==
    \A k \in DOMAIN new :
        IF k \notin DOMAIN old THEN k \in DOMAIN defaults /\ new[k] = defaults[k]
        ELSE IF IsDict(old[k]) /\ k \in DOMAIN defaults /\ IsDict(defaults[k])
             THEN IsDict(new[k]) /\ OnlyAdds(old[k].m, new[k].m, defaults[k].m)
        ELSE new[k] = old[k]

\* C5: the defaults merge never overwrites.  A construction over a persisted
\* table leaves every key the table had, at any depth, with the value it had,
\* in the loaded configuration and in the file; the keys it adds are keys of
\* DEFAULTS that were absent, with their default values.
C5_MergeNeverOverwrites ==
    [][(Construct /\ cfgFile.state = "ok") =>
           /\ Preserved(load(cfgFile), mgr'.config)
           /\ OnlyAdds(load(cfgFile), mgr'.config, DEFAULTS)
           /\ cfgFile'.state = "ok"
           /\ Preserved(load(cfgFile), load(cfgFile'))
           /\ OnlyAdds(load(cfgFile), load(cfgFile'), DEFAULTS)]_vars

\* A construction has merged the defaults into a persisted table that held a
\* string where the default is a table, a nested table with its own value and
\* a key the defaults do not have; keys were added and the file was rewritten.
C5_Witness ==
    /\ mgr.status = "ok"
    /\ mgr.fileBefore.state = "ok"
    /\ mgr.writes = 1
    /\ {"orchestrator", "latex", "custom"} \subseteq DOMAIN mgr.loaded
    /\ mgr.loaded["orchestrator"] = S("x")
    /\ mgr.config["orchestrator"] = S("x")
    /\ mgr.loaded["latex"] = M([available_templates |-> L(<<article>>)])
    /\ "default_template" \in DOMAIN mgr.config["latex"].m
    /\ mgr.config["latex"].m["available_templates"] = L(<<article>>)
    /\ cfgFile = dump(mgr.config)

\* new has a key, at some depth, that old does not have.
RECURSIVE KeysAdded(_, _)
KeysAdded(old, new) ==
    \E k \in DOMAIN new :
        \/ k \notin DOMAIN old
        \/ IsDict(old[k]) /\ IsDict(new[k]) /\ KeysAdded(old[k].m, new[k].m)

\* Nothing has happened since the last construction returned: the manager
\* and the file are as that construction left them.
FreshlyConstructed ==
    /\ mgr.status = "ok"
    /\ mgr = ConfigManager(mgr.fileBefore, tmplFiles).mgr
    /\ cfgFile = ConfigManager(mgr.fileBefore, tmplFiles).file

\* C18: a construction writes config.toml exactly when the file did not exist
\* (the defaults are written) or the merge added a key; it leaves a file that
\* holds every default key as it is; and a construction right after a
\* construction writes nothing and loads the same configuration.
C18_WritesOnlyWhenNeeded ==
    [][Construct =>
           /\ cfgFile.state = "absent" => mgr'.writes = 1 /\ cfgFile' = dump(DEFAULTS)
           /\ cfgFile.state = "malformed" => mgr'.writes = 0 /\ cfgFile' = cfgFile
           /\ cfgFile.state = "ok" =>
                  /\ mgr'.writes = (IF KeysAdded(load(cfgFile), mgr'.config) THEN 1 ELSE 0)
                  /\ mgr'.writes = 0 => cfgFile' = cfgFile
                  /\ HasAllDefaults(load(cfgFile), DEFAULTS) =>
                         mgr'.writes = 0 /\ cfgFile' = cfgFile
           /\ FreshlyConstructed =>
                  /\ mgr'.writes = 0
                  /\ cfgFile' = cfgFile
                  /\ mgr'.config = mgr.config]_vars

\* A second construction has found the file the first one wrote - the agent
\* section with the user's model and the api_key the merge added - and wrote
\* nothing.
C18_Witness ==
    /\ mgr.status = "ok"
    /\ mgr.writes = 0
    /\ mgr.fileBefore = cfgFile
    /\ mgr.loaded = mgr.config
    /\ "orchestrator" \in DOMAIN mgr.loaded
    /\ mgr.loaded["orchestrator"] = M([model |-> S("mine"), api_key |-> S("")])

----------------------------------------------------------------------------
(* Claims about the interactive loop, checked under SpecLoop.              *)

\* The last iteration read a line.
ReadALine == lastIter.event.kind = "line"

\* The last iteration called the agent once with the line it read.
ForwardedOnce ==
    /\ lastIter.calls = 1
    /\ runs = Append(lastIter.runsBefore, lastIter.event.text)

\* The last iteration did not call the agent.
NotForwarded == lastIter.calls = 0 /\ runs = lastIter.runsBefore

\* C8 as stated: a line that is one of exit, quit, q, bye ends the loop
\* without calling the agent; the empty line is ignored and the prompt is
\* shown again; any other line is forwarded to the agent exactly once.
C8_AsStated ==
    ReadALine =>
        LET text == lastIter.event.text
        IN  /\ text \in ExitKeywords => pc = "done" /\ NotForwarded
            /\ text = <<>> => pc = "prompt" /\ NotForwarded
            /\ (text \notin ExitKeywords /\ text # <<>>) => ForwardedOnce

\* C8 (amended): a line that is an exit keyword in any letter case, compared
\* untrimmed, ends the loop without calling the agent; a line that is empty
\* or holds only whitespace is ignored and the prompt is shown again; any
\* other line is forwarded to the agent exactly once, as it was typed.
C8_LoopHandling ==
    ReadALine =>
        LET text == lastIter.event.text
        IN  IF lower(text) \in ExitKeywords
            THEN lastIter.handled = "exit" /\ pc = "done" /\ NotForwarded
            ELSE IF strip(text) = <<>>
            THEN lastIter.handled = "ignored" /\ pc = "prompt" /\ NotForwarded
            ELSE lastIter.handled \notin {"exit", "ignored"} /\ ForwardedOnce

\* After an earlier request, the line "exit " (a keyword followed by a space)
\* has been forwarded to the agent, which answered.
C8_Witness ==
    /\ lastIter.event = Line_(<<"e", "x", "i", "t", " ">>)
    /\ lastIter.handled = "answered"
    /\ lastIter.runsBefore # <<>>
    /\ ForwardedOnce
    /\ pc = "prompt"

\* The last iteration ended with an exit keyword or an interrupt: Ctrl-C at
\* the prompt or while the agent was running.
ExitOrInterrupt ==
    \/ lastIter.event.kind = "interrupt"
    \/ ReadALine /\ lower(lastIter.event.text) \in ExitKeywords
    \/ lastIter.calls >= 1 /\ lastIter.outcome = "KeyboardInterrupt"

\* The last iteration met an exception other than an interrupt: EOFError
\* from input(), or an Exception from the agent.
OtherException ==
    \/ lastIter.event.kind = "eof"
    \/ lastIter.calls >= 1 /\ lastIter.outcome = "Exception"

\* C9: the loop has ended only if the last iteration saw an exit keyword or
\* an interrupt; an iteration that met any other exception, while reading or
\* while processing, printed the error and is back at the prompt; no
\* iteration calls the agent more than once.
C9_OnlyExitOrInterruptEnds ==
    lastIter.event.kind # "none" =>
        /\ pc = "done" => ExitOrInterrupt
        /\ OtherException => lastIter.handled = "error" /\ pc = "prompt"
        /\ lastIter.calls <= 1
        /\ Len(runs) = Len(lastIter.runsBefore) + lastIter.calls

\* After an earlier request, the agent raised while processing a line: it
\* was called once and the loop is back at the prompt.
C9_Witness ==
    /\ ReadALine
    /\ lastIter.outcome = "Exception"
    /\ lastIter.handled = "error"
    /\ lastIter.calls = 1
    /\ lastIter.runsBefore # <<>>
    /\ pc = "prompt"

----------------------------------------------------------------------------
(* Further claims about the file tools, checked under Spec.                *)

\* The last call was read_file on a path that passed the containment check.
ReadPastGuard == last.tool = "read_file" /\ GuardPasses(abspath(last.args.path))

\* C11: past the containment check, read_file answers a path that does not
\* exist, a path that is not a regular file and a file whose bytes the
\* requested encoding cannot decode with three different errors, examined in
\* that order; for a regular file that decodes it returns the header (path,
\* size, modification time) followed by the whole text of the file as text
\* mode reads it.
C11_ReadFileOutcomes ==
    ReadPastGuard =>
        LET F == last.before
            p == abspath(last.args.path)
            enc == last.args.encoding
        IN  /\ ~last.raised
            /\ ~exists(F, p) => last.res.msg = "file_does_not_exist"
            /\ (exists(F, p) /\ ~isfile(F, p)) => last.res.msg = "is_not_a_file"
            /\ (isfile(F, p) /\ DecodeRaises(F[p].data, enc)) =>
                   last.res.msg = "not_a_text_file"
            /\ (isfile(F, p) /\ ~DecodeRaises(F[p].data, enc)) =>
                   /\ last.res.msg = "file_content"
                   /\ last.res.rel = relpath(p, cwd)
                   /\ last.res.size = SizeStr(Len(F[p].data))
                   /\ last.res.mtime = F[p].mtime
                   /\ last.res.body = ReadTranslate(Decode(F[p].data, enc))
                   /\ Len(last.res.body) = Len(F[p].data)
                          - Cardinality({i \in 1..(Len(F[p].data) - 1) :
                                            F[p].data[i] = CR /\ F[p].data[i + 1] = LF})

\* After a directory was answered with the not-a-file error, a binary file
\* read as utf-8 has been answered with the decoding error.
C11_Witness ==
    /\ prev.tool = "read_file"
    /\ prev.res.msg = "is_not_a_file"
    /\ ReadPastGuard
    /\ last.args.encoding = "utf-8"
    /\ last.res.msg = "not_a_text_file"

\* The last call was create_file on a path inside the working directory.
CreateInside == last.tool = "create_file" /\ InsideCwd(abspath(last.args.path))

\* The call can succeed: the target is not a directory, no ancestor of it is
\* a regular file, and utf-8 can encode the content.
Creatable(F, p, content) ==
    /\ ~isdir(F, p)
    /\ \A q \in Prefixes(dirname(p)) : ~isfile(F, q)
    /\ ~EncodeRaises(content)

\* C12: create_file on a path inside the working directory succeeds whenever
\* the target can be written; it then has created every missing parent
\* directory, the file holds exactly the content given, whatever it held
\* before (so after two creates on one path it holds the second content), the
\* rest of the filesystem is as it was, and the path returned is the target
\* relative to the working directory.
C12_CreateFile ==
    CreateInside =>
        LET F == last.before
            p == abspath(last.args.path)
            content == last.args.content
        IN  /\ (~last.raised /\ last.res.msg = "file_created") <=> Creatable(F, p, content)
            /\ last.res.msg = "file_created" =>
                   /\ \A q \in Prefixes(dirname(p)) : isdir(fs, q)
                   /\ isfile(fs, p)
                   /\ fs[p].data = content
                   /\ last.res.rel = relpath(p, cwd)
                   /\ DOMAIN fs = DOMAIN F \cup Prefixes(p)
                   /\ \A q \in DOMAIN F \ {p} : fs[q] = F[q]

\* Two successive creates on one path, with different non-empty contents: the
\* first made the missing parent directory, the second replaced the content.
C12_Witness ==
    /\ CreateInside
    /\ prev.tool = "create_file"
    /\ prev.res.msg = "file_created"
    /\ abspath(prev.args.path) = abspath(last.args.path)
    /\ ~isdir(prev.before, dirname(abspath(prev.args.path)))
    /\ prev.args.content # <<>>
    /\ last.args.content # <<>>
    /\ prev.args.content # last.args.content
    /\ last.res.msg = "file_created"
    /\ fs[abspath(last.args.path)].data = last.args.content

ReadingTools == {"read_file", "list_files"}

\* C17: read_file and list_files leave the filesystem as it was on every
\* call, whether they succeed or return an error, and a call repeated right
\* after itself returns what it returned the first time.
C17_ReadingChangesNothing ==
    last.tool \in ReadingTools =>
        /\ fs = last.before
        /\ \A op \in last.io : op[1] \in {"read", "listdir"}
        /\ (prev.tool = last.tool /\ prev.args = last.args) =>
               /\ prev.before = last.before
               /\ last.raised = prev.raised
               /\ last.res = prev.res

\* read_file has returned the content of a file twice in a row.
C17_Witness ==
    /\ last.tool = "read_file"
    /\ prev.tool = "read_file"
    /\ prev.args = last.args
    /\ last.res.msg = "file_content"
    /\ last.res = prev.res
    /\ fs = prev.before

----------------------------------------------------------------------------
(* Claims about the web tools, checked under SpecWeb.                      *)

\* The last call of a web tool fetched and converted its document.
Fetched(tool) == last.tool = tool /\ last.args.outcome = "ok"

\* The text ends with the truncation marker.
EndsWithMarker(t) ==
    /\ Len(t) >= Len(TruncationMarker)
    /\ SubSeq(t, Len(t) - Len(TruncationMarker) + 1, Len(t)) = TruncationMarker

PageReturned ==
    /\ Fetched("visit_webpage")
    /\ TextLen(last.res.body) <= max_output_length

\* The converted text, stripped, of the last visit_webpage call, and what the
\* returned body has after the source-URL prefix.
ConvertedText == StripText(last.args.text)
ReturnedText ==
    SubSeq(last.res.body, Len(SourcePrefix(last.args.url)) + 1, Len(last.res.body))

\* The empty lines that a run of line feeds between two lines of text makes.
BlankLines(r) == r.n - 1

\* The text out is the text in with its runs of line feeds resized: what is
\* between the runs of line feeds is the same, in the same order.
SameLines(in, out) ==
    /\ Len(out) = Len(in)
    /\ \A i \in 1..Len(in) :
           /\ out[i].c = in[i].c
           /\ in[i].c # LF => out[i] = in[i]

\* C21 as stated: the body of an uncut page has the lines of the converted
\* text in the same order, every run of 3 or more blank lines become one
\* blank line and every run of fewer than 3 blank lines unchanged.
C21_AsStated ==
    PageReturned =>
        /\ SameLines(ConvertedText, ReturnedText)
        /\ \A i \in 1..Len(ConvertedText) :
               ConvertedText[i].c = LF =>
                   /\ BlankLines(ConvertedText[i]) >= 3 => BlankLines(ReturnedText[i]) = 1
                   /\ BlankLines(ConvertedText[i]) < 3 => ReturnedText[i] = ConvertedText[i]

\* C21, amended: the body of an uncut page has the lines of the converted
\* text in the same order, every run of 3 or more line feeds (2 or more empty
\* lines) become two line feeds (one empty line), every run of one or two
\* line feeds unchanged, and so no run of more than two line feeds in it.
C21_CollapseLineFeeds ==
    PageReturned =>
        /\ SameLines(ConvertedText, ReturnedText)
        /\ \A i \in 1..Len(ConvertedText) :
               ConvertedText[i].c = LF =>
                   /\ ConvertedText[i].n >= 3 =>
                          ReturnedText[i].n = 2 /\ BlankLines(ReturnedText[i]) = 1
                   /\ ConvertedText[i].n < 3 => ReturnedText[i] = ConvertedText[i]
        /\ \A i \in 1..Len(ReturnedText) :
               ReturnedText[i].c = LF => ReturnedText[i].n <= 2

\* A page whose text has runs of one, two, three and five line feeds was
\* returned with runs of one, two, two and two.
C21_Witness ==
    /\ PageReturned
    /\ \A n \in {1, 2, 3, 5} : \E i \in 1..Len(ConvertedText) : ConvertedText[i] = Run(LF, n)
    /\ SelectSeq(ReturnedText, LAMBDA r : r.c = LF)
           = <<Run(LF, 1), Run(LF, 2), Run(LF, 2), Run(LF, 2)>>

----------------------------------------------------------------------------
(* Claims about compile_latex_document, checked under SpecDoc.             *)

\* The last call was compile_latex_document and its latexmk run returned.
CompilerRan ==
    /\ last.tool = "compile_latex_document"
    /\ <<"exec_latexmk", abspath(last.args.path)>> \in last.io
    /\ ~last.args.run.raises

\* The .pdf next to the source of the last compile_latex_document call.
PdfPathOf(call) ==
    LET file_path == abspath(call.args.path)
    IN  Append(dirname(file_path), SplitextRoot(file_path[Len(file_path)]) \o PDF)

\* The lines of the captured output, stdout and stderr, that contain 'error'.
MarkedLines(run) ==
    SelectSeq(SplitLines(<<>>, run.stdout) \o SplitLines(<<>>, run.stderr), HasErrorMarker)

\* C14: once the compiler has run, compile_latex_document reports success,
\* with the path of the .pdf, exactly when the run exited with code zero and
\* the .pdf exists next to the source afterwards; otherwise it returns the
\* failure message, which holds every line of the captured output that
\* contains the error marker, or 'Unknown compilation error' if there is none.
C14_CompileOutcome ==
    CompilerRan =>
        LET run == last.args.run
            pdf_path == PdfPathOf(last)
            ok == run.rc = 0 /\ exists(fs, pdf_path)
            marked == MarkedLines(run)
        IN  /\ ~last.raised
            /\ last.res.msg = "compiled" <=> ok
            /\ ok => last.res.rel = relpath(pdf_path, cwd)
            /\ ~ok =>
                   /\ last.res.msg = "compilation_failed"
                   /\ last.res.error.unknown <=> marked = <<>>
                   /\ \A i \in 1..Len(marked) : marked[i] \in Range(last.res.error.lines)

\* The latexmk run of the last compile_latex_document call was started.
CompilerStarted == \E op \in last.io : op[1] = "exec_latexmk"

\* C19: compile_latex_document starts the compiler only after its pre-checks
\* passed, in this order: the path passes the containment check, the file
\* exists, its name ends in .tex, the latexmk binary is reachable; a call
\* whose pre-check fails returns the error of the first check that fails and
\* does not start the compiler.
C19_PreChecks ==
    last.tool = "compile_latex_document" =>
        LET F == last.before
            file_path == abspath(last.args.path)
        IN  IF ~GuardPasses(file_path)
            THEN ~last.raised /\ last.res.msg = "compile_outside_cwd" /\ ~CompilerStarted
            ELSE IF ~exists(F, file_path)
            THEN ~last.raised /\ last.res.msg = "file_does_not_exist" /\ ~CompilerStarted
            ELSE IF ~EndsWith(PathText(file_path), TEX)
            THEN ~last.raised /\ last.res.msg = "not_a_tex_file" /\ ~CompilerStarted
            ELSE IF last.args.latexmk # "ok"
            THEN ~last.raised /\ last.res.msg = "latexmk_not_installed" /\ ~CompilerStarted
            ELSE CompilerStarted

----------------------------------------------------------------------------
(* Further claims about create_latex_document, checked under SpecDoc.      *)

\* The last call was create_latex_document.
CreatedDocument == last.tool = "create_latex_document"

\* The last create_latex_document call ended as out does: the same return
\* value and the same filesystem afterwards.
EndedAs(out) ==
    /\ last.raised = out.raised
    /\ last.res = out.res
    /\ fs = out.fs

\* C15: abstract handling happens only for the article template and institute
\* handling only for the beamer template: with any other template the call
\* ends exactly as it does without the abstract (respectively institute)
\* argument - the same message, the same render variables, the same file.
C15_TemplateSpecificHandling ==
    CreatedDocument =>
        LET a == last.args
            F == last.before
        IN  /\ a.template_type # article =>
                   EndedAs(create_latex_document(F, a.template_type, a.output_filename,
                                                 a.section_files, NoPath, a.institute,
                                                 a.fault, clock))
            /\ a.template_type # beamer =>
                   EndedAs(create_latex_document(F, a.template_type, a.output_filename,
                                                 a.section_files, a.abstract, None,
                                                 a.fault, clock))

\* The failure modes of the last create_latex_document call.
UnknownTemplate == last.args.template_type \notin Range(available_templates)
TemplateFileMissing == last.args.fault = "template_missing"
AbstractMissing ==
    last.args.abstract # NoPath /\ ~isfile(last.before, Resolve(last.args.abstract))
RenderRaises == last.args.fault = "render_raises"

\* The tool got as far as its own code: jinja2 imports and ConfigManager()
\* returns.
ToolStarted == last.args.fault \notin {"no_jinja2", "config_raises"}

DocumentErrors ==
    {"invalid_template_type", "error_creating_document", "section_files_do_not_exist",
     "abstract_does_not_exist"}

\* C16: in every failure mode of create_latex_document - template name not
\* declared, template file missing, a section file missing, the abstract file
\* missing, the templating engine raising - the call returns an error and the
\* filesystem, the output file included, is as it was; an undeclared template
\* name is answered with the invalid-template error whatever the section
\* files are.
C16_FailureModes ==
    (CreatedDocument /\ ToolStarted) =>
        /\ (UnknownTemplate \/ TemplateFileMissing \/ SomeSectionMissing
                \/ AbstractMissing \/ RenderRaises) =>
               /\ ~last.raised
               /\ last.res.msg \in DocumentErrors
               /\ last.io = {}
               /\ fs = last.before
        /\ UnknownTemplate => last.res.msg = "invalid_template_type"

\* The templating engine raised while rendering a document whose template and
\* section files are in order and whose output file exists: the call returned
\* the error and the file is as it was.
C16_Witness ==
    /\ CreatedDocument
    /\ RenderRaises
    /\ ~UnknownTemplate
    /\ ~SomeSectionMissing
    /\ last.args.section_files # <<>>
    /\ isfile(last.before, Resolve(EnsureTex(last.args.output_filename)))
    /\ last.res.msg = "error_creating_document"
    /\ fs = last.before

\* The call wrote a document.
DocumentWritten == CreatedDocument /\ ~last.raised /\ last.res.msg = "document_created"

\* The file the call wrote.
WrittenPath == CHOOSE p \in DOMAIN fs : <<"write", p>> \in last.io

\* A path has only forward slashes: no component of it holds a backslash.
OnlyForwardSlashes(rel) ==
    \A i \in 1..Len(rel) : \A k \in 1..Len(rel[i]) : rel[i][k] # "\\"

----------------------------------------------------------------------------
(* Claims about main(), checked under SpecMain.                            *)

\* The first run: the program was started with no configuration file.
FirstRunWithoutFile == pc # "start" /\ clock = 1 /\ mgr.fileBefore = NoFile

\* C22: the loop is entered, and a request forwarded to the agent, only when
\* the loaded configuration has initialized = true; and a first run that
\* finds no configuration file writes the defaults, with initialized =
\* false, prints the notice and returns without prompting or forwarding.
C22_InitializedGate ==
    /\ (pc = "prompt" \/ (pc # "start" /\ runs # <<>>)) =>
           /\ mgr.status = "ok"
           /\ mgr.config["initialized"] = S("true")
    /\ FirstRunWithoutFile =>
           /\ pc = "notice"
           /\ cfgFile = dump(DEFAULTS)
           /\ cfgFile.doc["initialized"] = S("false")
           /\ mgr.writes >= 1
           /\ iters = 0
           /\ runs = <<>>

====
